---- MODULE Spec2Model ----
(***************************************************************************)
(* Offline operation log and synchronisation engine of the local-first     *)
(* job application tracker: the IndexedDB sync queue, the SyncEngine       *)
(* (single-flight pass, batches, retry timers, connectivity), the          *)
(* application store's local mutations and the POST /api/sync endpoint.    *)
(***************************************************************************)
EXTENDS Integers, Sequences, FiniteSets, TLC

(* ------------------------------ bounds -------------------------------- *)
MaxOps == 2          \* operations the sync queue can hold (ids 1..MaxOps)
MaxEntities == 2     \* record identifiers
MaxTime == 2         \* the clock Date.now() runs over 0..MaxTime
MaxVersion == 2      \* local and submitted version numbers stay <= MaxVersion
MaxQueue == 1        \* operations enqueued in SpecRetry (all failures allowed there)
MaxItems == 101      \* selected operations handed to createBatches in SpecBatches
MaxResets == 2       \* reset-to-idle timers of the sync store pending or to come

(* ------------------------- program constants -------------------------- *)
MAX_BATCH_SIZE == 50
MAX_RETRY_COUNT == 5
RETRY_DELAYS == <<1000, 2000, 4000, 8000, 16000>>

OpIds == 1..MaxOps
EntityIds == 1..MaxEntities
Times == 0..MaxTime
Users == {"A", "B"}
Me == "A"            \* the user signed in on this client (session.user.id)
DeviceSlots == {MaxOps + 1, MaxOps + 2}  \* two requests of other clients (or re-sent ones)
Slots == OpIds \cup DeviceSlots          \* a request slot: the op id, or a device
EndpointIds == {1}   \* the record the other devices' requests are about

(* A record reduced to the fields the protocol reads: owner, version,     *)
(* updatedAt.  NoRec stands for "no such record" (undefined / null).      *)
Rec(u, v, t) == [userId |-> u, version |-> v, updatedAt |-> t]
NoRec == Rec("none", 0, 0)

NoOp ==
  [id |-> 0, type |-> "none", entityId |-> 0, data |-> NoRec, timestamp |-> 0,
   synced |-> FALSE, retryCount |-> 0, error |-> ""]

(* A contact or document reduced to what the pull reads: the application *)
(* it belongs to and its updatedAt.  NoRow stands for "no such row".      *)
ContactIds == {1}
DocumentIds == {1}
Row(a, t) == [applicationId |-> a, updatedAt |-> t]
NoRow == Row(0, 0)

(* the three local tables a pull writes *)
Tables(a, c, d) == [applications |-> a, contacts |-> c, documents |-> d]
NoTables ==
  Tables([e \in EntityIds |-> NoRec], [c \in ContactIds |-> NoRow],
         [d \in DocumentIds |-> NoRow])

(* a pull request without the lastSyncedAt parameter *)
NoCheckpoint == 0 - 1

(* the body of a pull response *)
NoData ==
  [applications |-> NoTables.applications, contacts |-> NoTables.contacts,
   documents |-> NoTables.documents, timestamp |-> 0]

NoPull ==
  [st |-> "none", by |-> "none", user |-> "none", since |-> NoCheckpoint, data |-> NoData,
   before |-> NoTables]

(* no request of the operation has failed yet *)
NoFailure == 0 - 1

(* manualSync(): how the call ended, and the engine flags it met *)
(* lastSyncedAt: null *)
NeverSynced == 0 - 1

NoCall == [result |-> "none", isOnline |-> FALSE, isSyncing |-> FALSE]

NoReq ==
  [st |-> "none", user |-> "none", operation |-> "none", entityId |-> 0,
   data |-> NoRec, timestamp |-> 0, existing |-> NoRec,
   status |-> 0, conflict |-> FALSE, result |-> NoRec]

VARIABLES
  srv, srvLog,                       \* the server: records, SyncQueue table
  req,                                          \* requests to POST /api/sync in flight
  applications, syncQueue, created, enqOrder,   \* IndexedDB (durable) and its history
  mutPc, mut,                                   \* the store mutation under way
  isOnline, isSyncing, pc, validOperations, batchIdx, completed,
  retryTimers, delaysScheduled, syncState, activePasses,   \* SyncEngine
  navOnline, storeOnline, probing, lastProbe,   \* connectivity
  now, booleanKeys,                             \* clock; how the index files booleans
  lastCall,                                     \* how the latest manualSync() call ended
  selected, batches,                            \* createBatches: argument and result
  srvContacts, srvDocuments,                    \* the server's Contact and Document tables
  contacts, documents,                          \* IndexedDB contacts and documents
  pull,                                         \* the GET /api/sync/pull under way
  declined,                                     \* a sync() call returned at the guard during this pass
  settled,                                      \* promises of the current batch that have settled
  isChecking,                                   \* useNetworkStatus: its health probe is under way
  failedAt,                                     \* when each operation's latest request failed
  syncStatus, lastSyncedAt,                     \* useSyncStore fields
  resetTimers                                   \* pending 2-second reset-to-idle timers

serverVars == <<srv, srvLog>>
dbVars == <<applications, syncQueue, created, enqOrder>>
mutVars == <<mutPc, mut>>
passVars == <<isSyncing, pc, validOperations, batchIdx, completed, syncState, activePasses>>
timerVars == <<retryTimers, delaysScheduled>>
connVars == <<navOnline, storeOnline, probing, lastProbe>>
pullVars == <<srvContacts, srvDocuments, contacts, documents, pull>>
hookVars == <<isChecking>>
storeVars == <<syncStatus, lastSyncedAt, resetTimers>>
auxVars == <<settled, hookVars, failedAt, storeVars>>
vars ==
  <<srv, srvLog, req, applications, syncQueue, created, enqOrder,
    mutPc, mut, isOnline, isSyncing, pc, validOperations, batchIdx, completed,
    retryTimers, delaysScheduled, syncState, activePasses,
    navOnline, storeOnline, probing, lastProbe, now, booleanKeys, lastCall, selected, batches,
    srvContacts, srvDocuments, contacts, documents, pull, declined,
    settled, isChecking, failedAt,
    syncStatus, lastSyncedAt, resetTimers>>

(* ===================== POST /api/sync (the endpoint) =================== *)

LogEntry(r) ==
  [userId |-> r.user, operation |-> r.operation, entityId |-> r.entityId, data |-> r.data]

Response(st, cf, res) == [status |-> st, conflict |-> cf, result |-> res]

(* existing.updatedAt > timestamp: the only conflict test the route makes *)
ServerConflict(existing, timestamp) == existing.updatedAt > timestamp

(* CREATE branch.  ex is what findUnique returned, cur the row at the     *)
(* time of the write; prisma.update / create throw (500) when the row     *)
(* vanished / appeared in between.                                        *)
HandleCreate(r, ex, cur) ==
  IF ex # NoRec
  THEN IF ServerConflict(ex, r.timestamp)
       THEN [row |-> cur, resp |-> Response(200, TRUE, ex), log |-> TRUE]
       ELSE IF cur = NoRec
            THEN [row |-> cur, resp |-> Response(500, FALSE, NoRec), log |-> FALSE]
            ELSE LET new == Rec(r.user, r.data.version, r.data.updatedAt)
                 IN [row |-> new, resp |-> Response(200, FALSE, new), log |-> TRUE]
  ELSE IF cur # NoRec
       THEN [row |-> cur, resp |-> Response(500, FALSE, NoRec), log |-> FALSE]
       ELSE LET new == Rec(r.user, r.data.version, r.data.updatedAt)
            IN [row |-> new, resp |-> Response(200, FALSE, new), log |-> TRUE]

HandleUpdate(r, ex, cur) ==
  IF ex = NoRec
  THEN [row |-> cur, resp |-> Response(404, FALSE, NoRec), log |-> FALSE]
  ELSE IF ex.userId # r.user
  THEN [row |-> cur, resp |-> Response(403, FALSE, NoRec), log |-> FALSE]
  ELSE IF ServerConflict(ex, r.timestamp)
  THEN [row |-> cur, resp |-> Response(200, TRUE, ex), log |-> TRUE]
  ELSE IF cur = NoRec
  THEN [row |-> cur, resp |-> Response(500, FALSE, NoRec), log |-> FALSE]
  ELSE LET new == Rec(r.data.userId, ex.version + 1, r.data.updatedAt)
       IN [row |-> new, resp |-> Response(200, FALSE, new), log |-> TRUE]

(* a DELETE branch that answers 404 for an id it does not find, as the    *)
(* UPDATE branch does                                                     *)
HandleDeleteNotFound(r, ex, cur) ==
  IF ex = NoRec
  THEN [row |-> cur, resp |-> Response(404, FALSE, NoRec), log |-> FALSE]
  ELSE IF ex.userId = r.user
  THEN IF cur = NoRec
       THEN [row |-> cur, resp |-> Response(500, FALSE, NoRec), log |-> FALSE]
       ELSE [row |-> NoRec, resp |-> Response(200, FALSE, NoRec), log |-> TRUE]
  ELSE [row |-> cur, resp |-> Response(200, FALSE, NoRec), log |-> TRUE]

HandleDelete(r, ex, cur) ==
  IF ex # NoRec /\ ex.userId = r.user
  THEN IF cur = NoRec
       THEN [row |-> cur, resp |-> Response(500, FALSE, NoRec), log |-> FALSE]
       ELSE [row |-> NoRec, resp |-> Response(200, FALSE, NoRec), log |-> TRUE]
  ELSE [row |-> cur, resp |-> Response(200, FALSE, NoRec), log |-> TRUE]

Handle(r, cur) ==
  IF r.operation = "CREATE" THEN HandleCreate(r, r.existing, cur)
  ELSE IF r.operation = "UPDATE" THEN HandleUpdate(r, r.existing, cur)
  ELSE HandleDelete(r, r.existing, cur)

(* prisma.application.findUnique({ where: { id: entityId } }) *)
ServerFind(s) ==
  /\ req[s].st = "sent"
  /\ req' = [req EXCEPT ![s].st = "found", ![s].existing = srv[req[s].entityId]]
  /\ UNCHANGED <<serverVars, dbVars, mutVars, isOnline, passVars, timerVars, connVars,
                 now, booleanKeys, lastCall, selected, batches, pullVars, declined, auxVars>>

(* the write, the SyncQueue row and the JSON response *)
ServerApply(s) ==
  /\ req[s].st = "found"
  /\ LET r == req[s]
         h == Handle(r, srv[r.entityId])
     IN /\ srv' = [srv EXCEPT ![r.entityId] = h.row]
        /\ srvLog' = IF h.log THEN srvLog \cup {LogEntry(r)} ELSE srvLog
        /\ req' = [req EXCEPT ![s].st = "done", ![s].status = h.resp.status,
                              ![s].conflict = h.resp.conflict,
                              ![s].result = h.resp.result]
  /\ UNCHANGED <<dbVars, mutVars, isOnline, passVars, timerVars, connVars,
                 now, booleanKeys, lastCall, selected, batches, pullVars, declined, auxVars>>

(* Another device (any signed-in user) posts an operation built the way   *)
(* the application store builds it: data carries the owner, the client's  *)
(* version and updatedAt; DELETE carries { id } only.                     *)
Submit(s, u, o, e, v, t) ==
  /\ req[s].st = "none"
  /\ req' = [req EXCEPT ![s] =
       [NoReq EXCEPT !.st = "sent", !.user = u, !.operation = o, !.entityId = e,
                     !.data = IF o = "DELETE" THEN NoRec ELSE Rec(u, v, t),
                     !.timestamp = t]]
  /\ UNCHANGED <<srv, srvLog, dbVars, mutVars, isOnline, passVars, timerVars, connVars,
                 now, booleanKeys, lastCall, selected, batches, pullVars, declined, auxVars>>

(* ======================= IndexedDB (indexed-db.ts) ===================== *)

FreeIds == {i \in OpIds : syncQueue[i] = NoOp}

(* The key under which the "synced" index files a stored flag.  IndexedDB *)
(* accepts no boolean as a key: a record whose flag is true or false is   *)
(* left out of the index (booleanKeys = FALSE, key -1 here).  The query   *)
(* of line 117 and README.md:757 (equals(1)) presuppose that false and    *)
(* true are filed as 0 and 1 (booleanKeys = TRUE).                        *)
IndexKey(flag) == IF booleanKeys THEN (IF flag THEN 1 ELSE 0) ELSE -1

RECURSIVE IdsFrom(_, _)
IdsFrom(i, S) ==
  IF i > MaxOps THEN <<>>
  ELSE IF i \in S THEN <<i>> \o IdsFrom(i + 1, S) ELSE IdsFrom(i + 1, S)

(* db.syncQueue.where("synced").equals(0).toArray(): the records filed    *)
(* under key 0, in primary-key (id) order                                 *)
(* a selection that reads the whole table, whatever the synced flag *)
getAllOperations ==
  LET hit == {i \in OpIds : syncQueue[i] # NoOp}
      ids == IdsFrom(1, hit)
  IN [k \in 1..Len(ids) |-> syncQueue[ids[k]]]

getUnsyncedOperations ==
  LET hit == {i \in OpIds : syncQueue[i] # NoOp /\ IndexKey(syncQueue[i].synced) = 0}
      ids == IdsFrom(1, hit)
  IN [k \in 1..Len(ids) |-> syncQueue[ids[k]]]

(* db.syncQueue.update(operationId, { synced: true }) *)
markOperationSynced(q, i) == [q EXCEPT ![i].synced = TRUE]

(* reads the stored row, writes retryCount + 1 and the error *)
(* an update that records the error and leaves the count *)
incrementRetryCountErrorOnly(q, i, msg) ==
  IF q[i] # NoOp
  THEN [q EXCEPT ![i].error = msg]
  ELSE q

incrementRetryCount(q, i, msg) ==
  IF q[i] # NoOp
  THEN [q EXCEPT ![i].retryCount = q[i].retryCount + 1, ![i].error = msg]
  ELSE q

(* db.syncQueue.add({ id, type, entity, entityId, data, timestamp: Date.now(), *)
(* synced: false, retryCount: 0 }) with id a fresh UUID                     *)
addToSyncQueue(i, type, e, data) ==
  /\ syncQueue' = [syncQueue EXCEPT ![i] =
       [id |-> i, type |-> type, entityId |-> e, data |-> data, timestamp |-> now,
        synced |-> FALSE, retryCount |-> 0, error |-> ""]]
  /\ enqOrder' = Append(enqOrder, i)

(* ================== application-store.ts: local mutations ============== *)

(* addApplication up to "await db.applications.add(application)" *)
AddApplicationWrite(e) ==
  /\ mutPc = "idle"
  /\ FreeIds # {}
  /\ e \notin created
  /\ \A x \in EntityIds \ created : e <= x   \* UUIDs carry no order: lowest unused first
  /\ created' = created \cup {e}
  /\ applications' = [applications EXCEPT ![e] = Rec(Me, 1, now)]
  /\ mut' = [NoOp EXCEPT !.type = "CREATE", !.entityId = e, !.data = Rec(Me, 1, now)]
  /\ mutPc' = "written"
  /\ UNCHANGED <<serverVars, req, syncQueue, enqOrder, isOnline, passVars, timerVars,
                 connVars, now, booleanKeys, lastCall, selected, batches, pullVars, declined, auxVars>>

(* updateApplication up to the db.applications.get(id) that follows the    *)
(* update; uv is updates.version, 0 when the caller passes none           *)
UpdatedVersion(uv) == (IF uv = 0 THEN 1 ELSE uv) + 1

UpdateApplicationWrite(e, uv) ==
  /\ mutPc = "idle"
  /\ FreeIds # {}
  /\ applications[e] # NoRec
  /\ UpdatedVersion(uv) <= MaxVersion
  /\ LET new == [applications[e] EXCEPT !.updatedAt = now, !.version = UpdatedVersion(uv)]
     IN /\ applications' = [applications EXCEPT ![e] = new]
        /\ mut' = [NoOp EXCEPT !.type = "UPDATE", !.entityId = e, !.data = new]
  /\ mutPc' = "written"
  /\ UNCHANGED <<serverVars, req, syncQueue, created, enqOrder, isOnline, passVars,
                 timerVars, connVars, now, booleanKeys, lastCall, selected, batches, pullVars, declined, auxVars>>

(* deleteApplication up to "await db.applications.delete(id)" *)
DeleteApplicationWrite(e) ==
  /\ mutPc = "idle"
  /\ FreeIds # {}
  /\ applications[e] # NoRec
  /\ applications' = [applications EXCEPT ![e] = NoRec]
  /\ mut' = [NoOp EXCEPT !.type = "DELETE", !.entityId = e]
  /\ mutPc' = "written"
  /\ UNCHANGED <<serverVars, req, syncQueue, created, enqOrder, isOnline, passVars,
                 timerVars, connVars, now, booleanKeys, lastCall, selected, batches, pullVars, declined, auxVars>>

(* "Queue for sync": the awaited addToSyncQueue succeeds *)
MutationEnqueue(i) ==
  /\ mutPc = "written"
  /\ i \in FreeIds
  /\ addToSyncQueue(i, mut.type, mut.entityId, mut.data)
  /\ mutPc' = "idle"
  /\ mut' = NoOp
  /\ UNCHANGED <<serverVars, req, applications, created, isOnline, passVars, timerVars,
                 connVars, now, booleanKeys, lastCall, selected, batches, pullVars, declined, auxVars>>

(* addToSyncQueue rejects (quota, aborted transaction): the catch block   *)
(* records the error and rethrows; the record write is left as it is      *)
MutationEnqueueFails ==
  /\ mutPc = "written"
  /\ mutPc' = "idle"
  /\ mut' = NoOp
  /\ UNCHANGED <<serverVars, req, dbVars, isOnline, passVars, timerVars, connVars,
                 now, booleanKeys, lastCall, selected, batches, pullVars, declined, auxVars>>

(* ========================= SyncEngine (part_002) ====================== *)

(* a loop that slices one element short of the step it advances by *)
RECURSIVE createBatchesShortSlice(_, _)
createBatchesShortSlice(items, batchSize) ==
  IF Len(items) = 0 THEN <<>>
  ELSE IF Len(items) < batchSize THEN <<items>>
  ELSE <<SubSeq(items, 1, batchSize - 1)>>
         \o createBatchesShortSlice(SubSeq(items, batchSize + 1, Len(items)), batchSize)

RECURSIVE createBatches(_, _)
createBatches(items, batchSize) ==
  IF Len(items) = 0 THEN <<>>
  ELSE IF Len(items) <= batchSize THEN <<items>>
  ELSE <<SubSeq(items, 1, batchSize)>>
         \o createBatches(SubSeq(items, batchSize + 1, Len(items)), batchSize)

Batches == createBatches(validOperations, MAX_BATCH_SIZE)
BatchIds(b) == {b[k].id : k \in 1..Len(b)}
CurrentBatch == IF batchIdx = 0 THEN <<>> ELSE Batches[batchIdx]
Snapshot(i) ==
  LET ks == {k \in 1..Len(validOperations) : validOperations[k].id = i}
  IN IF ks = {} THEN NoOp ELSE validOperations[CHOOSE k \in ks : TRUE]

Min(a, b) == IF a < b THEN a ELSE b

(* a guard that forgets the connectivity flag *)
SyncGuardIgnoresOnline(online, syncing) == ~syncing

(* a guard that forgets the isSyncing flag *)
SyncGuardIgnoresFlag(online, syncing) == online

(* line 78: if (!this.isOnline || this.isSyncing) return *)
SyncGuard(online, syncing) == online /\ ~syncing

(* sync() up to its first await; online is this.isOnline as the caller left it *)
SyncCall(online) ==
  IF SyncGuard(online, isSyncing)
  THEN /\ isSyncing' = TRUE
       /\ pc' = "select"
       /\ activePasses' = activePasses + 1
       /\ syncState' = [status |-> "syncing", progress |-> 0, total |-> 0]
       /\ UNCHANGED <<validOperations, batchIdx, completed>>
  ELSE UNCHANGED passVars

(* the fetch("/api/sync") processOperation issues for one operation *)
RequestOf(op) ==
  [NoReq EXCEPT !.st = "sent", !.user = Me, !.operation = op.type,
                !.entityId = op.entityId, !.data = op.data, !.timestamp = op.timestamp]

(* processBatch: operations.map(op => this.processOperation(op)) *)
Dispatch(r, batch) ==
  [s \in Slots |-> IF s \in BatchIds(batch) THEN RequestOf(Snapshot(s)) ELSE r[s]]

(* a filter that lets an operation at the cap through *)
ValidOperationsOffByOne(ops) == SelectSeq(ops, LAMBDA op : op.retryCount <= MAX_RETRY_COUNT)

(* the filter of lines 90-92 *)
ValidOperations(ops) == SelectSeq(ops, LAMBDA op : op.retryCount < MAX_RETRY_COUNT)

(* sync() from the resolved getUnsyncedOperations to the first batch sent *)
SyncSelect ==
  /\ pc = "select"
  /\ LET valid == ValidOperations(getUnsyncedOperations)
     IN IF Len(valid) = 0
        THEN /\ syncState' = [status |-> "success", progress |-> 0, total |-> 0]
             /\ isSyncing' = FALSE
             /\ pc' = "idle"
             /\ activePasses' = activePasses - 1
             /\ UNCHANGED <<validOperations, batchIdx, completed, req>>
        ELSE /\ validOperations' = valid
             /\ batchIdx' = 1
             /\ completed' = 0
             /\ pc' = "batch"
             /\ req' = [s \in Slots |->
                          IF s \in BatchIds(createBatches(valid, MAX_BATCH_SIZE)[1])
                          THEN RequestOf(syncQueue[s]) ELSE req[s]]
             /\ UNCHANGED <<isSyncing, syncState, activePasses>>
  /\ UNCHANGED <<serverVars, dbVars, mutVars, isOnline, timerVars, connVars, now,
                 booleanKeys, lastCall, selected, batches, pullVars, declined, auxVars>>

(* getUnsyncedOperations rejects: catch (notify "error", rethrow), finally *)
SyncSelectFails ==
  /\ pc = "select"
  /\ syncState' = [status |-> "error", progress |-> 0, total |-> 0]
  /\ isSyncing' = FALSE
  /\ pc' = "idle"
  /\ activePasses' = activePasses - 1
  /\ UNCHANGED <<validOperations, batchIdx, completed, req, serverVars, dbVars, mutVars,
                 isOnline, timerVars, connVars, now, booleanKeys, lastCall, selected, batches, pullVars, declined, auxVars>>

(* fetch rejects: the request never arrives, or its response is lost *)
FetchFails(i) ==
  /\ req[i].st \in {"sent", "done"}
  /\ ~(req[i].st = "done" /\ req[i].status = 0)
  /\ req' = [req EXCEPT ![i].st = "done", ![i].status = 0, ![i].conflict = FALSE,
                        ![i].result = NoRec]
  /\ UNCHANGED <<serverVars, dbVars, mutVars, isOnline, passVars, timerVars, connVars,
                 now, booleanKeys, lastCall, selected, batches, pullVars, declined, auxVars>>

(* a resolver that lets the server win a tie *)
resolveConflictOnTie(apps, op, serverData) ==
  IF serverData.updatedAt >= op.timestamp
  THEN [apps EXCEPT ![op.entityId] = serverData]
  ELSE apps

(* resolveConflict: last-write-wins on serverData.updatedAt > timestamp *)
resolveConflict(apps, op, serverData) ==
  IF serverData.updatedAt > op.timestamp
  THEN [apps EXCEPT ![op.entityId] = serverData]
  ELSE apps

(* line 182 (arrays are 0-based there, sequences 1-based here) *)
RetryDelay(retryCount) == RETRY_DELAYS[Min(retryCount, Len(RETRY_DELAYS) - 1) + 1]

(* line 188 *)
SchedulesRetry(retryCount) == retryCount + 1 < MAX_RETRY_COUNT

(* a total counted from the rows in the queue at the time of the notice   *)
PassTotalLiveQueue == Len(ValidOperations(getUnsyncedOperations))

(* total: validOperations.length (lines 114, 120-121) *)
PassTotal == Len(validOperations)

(* processOperation from the settled fetch on, and, when it is the last   *)
(* of its batch, the rest of sync(): progress, next batch or the end      *)
Settle(i) ==
  /\ pc = "batch"
  /\ i \in OpIds
  /\ req[i].st = "done"
  /\ LET op == Snapshot(i)
         r == req[i]
         ok == r.status = 200
         last == \A j \in BatchIds(CurrentBatch) \ {i} : req[j].st = "none"
         more == batchIdx < Len(Batches)
         cleared == [req EXCEPT ![i] = NoReq]
     IN /\ IF ok
           THEN /\ applications' = IF r.conflict
                                   THEN resolveConflict(applications, op, r.result)
                                   ELSE applications
                /\ syncQueue' = markOperationSynced(syncQueue, i)
                /\ UNCHANGED <<timerVars, failedAt>>
           ELSE /\ failedAt' = [failedAt EXCEPT ![i] = now]
                /\ syncQueue' = incrementRetryCount(syncQueue, i,
                                  IF r.status = 0 THEN "Failed to fetch" ELSE "Sync failed")
                /\ UNCHANGED applications
                /\ IF SchedulesRetry(op.retryCount)
                   THEN /\ retryTimers' = retryTimers + 1
                        /\ delaysScheduled' =
                             [delaysScheduled EXCEPT ![i] = Append(@, RetryDelay(op.retryCount))]
                   ELSE UNCHANGED timerVars
        /\ IF ~last
           THEN /\ req' = cleared
                /\ UNCHANGED passVars
           ELSE IF more
           THEN /\ completed' = completed + Len(CurrentBatch)
                /\ syncState' = [status |-> "syncing",
                                 progress |-> completed + Len(CurrentBatch),
                                 total |-> PassTotal]
                /\ batchIdx' = batchIdx + 1
                /\ req' = Dispatch(cleared, Batches[batchIdx + 1])
                /\ UNCHANGED <<isSyncing, pc, validOperations, activePasses>>
           ELSE /\ completed' = completed + Len(CurrentBatch)
                /\ syncState' = [status |-> "success",
                                 progress |-> PassTotal,
                                 total |-> PassTotal]
                /\ isSyncing' = FALSE
                /\ pc' = "idle"
                /\ activePasses' = activePasses - 1
                /\ req' = cleared
                /\ UNCHANGED <<validOperations, batchIdx>>
  /\ UNCHANGED <<serverVars, created, enqOrder, mutVars, isOnline, connVars, now,
                 booleanKeys, lastCall, selected, batches, pullVars, declined, settled, hookVars,
                 storeVars>>

(* the setTimeout callback of lines 189-193 *)
RetryTimerFires ==
  /\ retryTimers > 0
  /\ retryTimers' = retryTimers - 1
  /\ IF isOnline /\ ~isSyncing THEN SyncCall(isOnline) ELSE UNCHANGED passVars
  /\ UNCHANGED <<serverVars, req, dbVars, mutVars, isOnline, delaysScheduled, connVars,
                 now, booleanKeys, lastCall, selected, batches, pullVars, declined, auxVars>>

(* sync-store triggerSync as called by useOfflineSync: the effect on      *)
(* isOnline, the 5-minute interval, manualSync; all need the store online *)
TriggerSync ==
  /\ storeOnline
  /\ SyncCall(isOnline)
  /\ UNCHANGED <<serverVars, req, dbVars, mutVars, isOnline, timerVars, connVars, now,
                 booleanKeys, lastCall, selected, batches, pullVars, declined, auxVars>>

(* useOfflineSync manualSync: throws when the store is offline, else      *)
(* awaits triggerSync; a declined sync() returns and the call completes   *)
ManualSync ==
  /\ IF ~storeOnline
     THEN /\ lastCall' = [result |-> "Offline", isOnline |-> isOnline,
                          isSyncing |-> isSyncing]
          /\ UNCHANGED passVars
     ELSE /\ lastCall' = [result |-> IF SyncGuard(isOnline, isSyncing)
                                     THEN "started" ELSE "returned",
                          isOnline |-> isOnline, isSyncing |-> isSyncing]
          /\ SyncCall(isOnline)
  /\ UNCHANGED <<serverVars, req, dbVars, mutVars, isOnline, timerVars, connVars, now,
                 booleanKeys, selected, batches, pullVars, declined, auxVars>>

(* =========================== connectivity ============================= *)

(* window "online": the engine's listener (lines 29-32) and the store's   *)
OnlineEvent ==
  /\ ~navOnline
  /\ navOnline' = TRUE
  /\ isOnline' = TRUE
  /\ storeOnline' = TRUE
  /\ SyncCall(TRUE)
  /\ UNCHANGED <<serverVars, req, dbVars, mutVars, timerVars, probing, lastProbe, now,
                 booleanKeys, lastCall, selected, batches, pullVars, declined, auxVars>>

(* window "offline" *)
OfflineEvent ==
  /\ navOnline
  /\ navOnline' = FALSE
  /\ isOnline' = FALSE
  /\ storeOnline' = FALSE
  /\ UNCHANGED <<serverVars, req, dbVars, mutVars, passVars, timerVars, probing,
                 lastProbe, now, booleanKeys, lastCall, selected, batches, pullVars, declined, auxVars>>

(* checkRealConnectivity up to the awaited fetch("/api/health"); the 30 s *)
(* interval and the 5 s abort keep two probes from overlapping            *)
ProbeStart ==
  /\ ~probing
  /\ IF ~navOnline
     THEN /\ isOnline' = FALSE
          /\ UNCHANGED probing
     ELSE /\ probing' = TRUE
          /\ UNCHANGED isOnline
  /\ UNCHANGED <<serverVars, req, dbVars, mutVars, passVars, timerVars, navOnline,
                 storeOnline, lastProbe, now, booleanKeys, lastCall, selected, batches, pullVars, declined, auxVars>>

(* the fetch resolves (ok) or rejects / is aborted after 5 s *)
ProbeDone(ok) ==
  /\ probing
  /\ probing' = FALSE
  /\ isOnline' = ok
  /\ lastProbe' = IF ok THEN "ok" ELSE "failed"
  /\ UNCHANGED <<serverVars, req, dbVars, mutVars, passVars, timerVars, navOnline,
                 storeOnline, now, booleanKeys, lastCall, selected, batches, pullVars, declined, auxVars>>

(* the clock the Date.now() / new Date() calls read *)
Tick ==
  /\ now < MaxTime
  /\ now' = now + 1
  /\ UNCHANGED <<serverVars, req, dbVars, mutVars, isOnline, passVars, timerVars,
                 connVars, booleanKeys, lastCall, selected, batches, pullVars, declined, auxVars>>

(* ============================== Init ================================== *)
Init ==
  /\ srv = [e \in EntityIds |-> NoRec]
  /\ srvLog = {}
  /\ req = [s \in Slots |-> NoReq]
  /\ applications = [e \in EntityIds |-> NoRec]
  /\ syncQueue = [i \in OpIds |-> NoOp]
  /\ created = {}
  /\ enqOrder = <<>>
  /\ mutPc = "idle"
  /\ mut = NoOp
  /\ navOnline \in BOOLEAN
  /\ isOnline = navOnline
  /\ storeOnline = navOnline
  /\ isSyncing = FALSE
  /\ pc = "idle"
  /\ validOperations = <<>>
  /\ batchIdx = 0
  /\ completed = 0
  /\ retryTimers = 0
  /\ delaysScheduled = [i \in OpIds |-> <<>>]
  /\ syncState = [status |-> "idle", progress |-> 0, total |-> 0]
  /\ activePasses = 0
  /\ probing = FALSE
  /\ lastProbe = "none"
  /\ now = 0
  /\ booleanKeys \in BOOLEAN
  /\ lastCall = NoCall
  /\ srvContacts = NoTables.contacts
  /\ srvDocuments = NoTables.documents
  /\ contacts = NoTables.contacts
  /\ documents = NoTables.documents
  /\ pull = NoPull
  /\ declined = FALSE
  /\ settled = 0
  /\ isChecking = FALSE
  /\ failedAt = [i \in OpIds |-> NoFailure]
  /\ syncStatus = "idle"
  /\ lastSyncedAt = NeverSynced
  /\ resetTimers = 0
  /\ selected = <<>>
  /\ batches = <<>>

(* ===================== the endpoint on its own ======================== *)
(* The server starts from any state it can be brought to: the record is  *)
(* absent, or was created by some user (version 1) and updated since.     *)
ServerRecords ==
  {NoRec} \cup {Rec(u, v, t) : u \in Users, v \in 1..(MaxVersion + 1), t \in Times}

InitEndpoint ==
  /\ srv \in [EntityIds -> ServerRecords]
  /\ \A e \in EntityIds \ EndpointIds : srv[e] = NoRec
  /\ srvLog = {}
  /\ req = [s \in Slots |-> NoReq]
  /\ applications = [e \in EntityIds |-> NoRec]
  /\ syncQueue = [i \in OpIds |-> NoOp]
  /\ created = {}
  /\ enqOrder = <<>>
  /\ mutPc = "idle"
  /\ mut = NoOp
  /\ navOnline = TRUE
  /\ isOnline = TRUE
  /\ storeOnline = TRUE
  /\ isSyncing = FALSE
  /\ pc = "idle"
  /\ validOperations = <<>>
  /\ batchIdx = 0
  /\ completed = 0
  /\ retryTimers = 0
  /\ delaysScheduled = [i \in OpIds |-> <<>>]
  /\ syncState = [status |-> "idle", progress |-> 0, total |-> 0]
  /\ activePasses = 0
  /\ probing = FALSE
  /\ lastProbe = "none"
  /\ now = 0
  /\ booleanKeys = FALSE
  /\ lastCall = NoCall
  /\ srvContacts = NoTables.contacts
  /\ srvDocuments = NoTables.documents
  /\ contacts = NoTables.contacts
  /\ documents = NoTables.documents
  /\ pull = NoPull
  /\ declined = FALSE
  /\ settled = 0
  /\ isChecking = FALSE
  /\ failedAt = [i \in OpIds |-> NoFailure]
  /\ syncStatus = "idle"
  /\ lastSyncedAt = NeverSynced
  /\ resetTimers = 0
  /\ selected = <<>>
  /\ batches = <<>>

(* CREATE carries version 1 (addApplication), UPDATE a version >= 2 *)
SubmitAny(s) ==
  \E u \in Users, o \in {"CREATE", "UPDATE", "DELETE"}, e \in EndpointIds,
     v \in 1..MaxVersion, t \in Times :
       /\ (o = "CREATE") => (v = 1)
       /\ (o = "UPDATE") => (v >= 2)
       /\ (o = "DELETE") => (v = 1)
       /\ Submit(s, u, o, e, v, t)

NextEndpoint ==
  \/ \E s \in DeviceSlots : SubmitAny(s)
  \/ \E s \in DeviceSlots : ServerFind(s)
  \/ \E s \in DeviceSlots : ServerApply(s)

SpecEndpoint == InitEndpoint /\ [][NextEndpoint]_vars

(* =========================== the whole system ========================= *)
LocalMutation ==
  \/ \E e \in EntityIds : AddApplicationWrite(e)
  \/ \E e \in EntityIds, uv \in 0..MaxVersion : UpdateApplicationWrite(e, uv)
  \/ \E e \in EntityIds : DeleteApplicationWrite(e)

Engine ==
  \/ \E i \in OpIds : MutationEnqueue(i)
  \/ TriggerSync
  \/ OnlineEvent
  \/ OfflineEvent
  \/ RetryTimerFires
  \/ SyncSelect
  \/ SyncSelectFails
  \/ \E i \in OpIds : ServerFind(i)
  \/ \E i \in OpIds : ServerApply(i)
  \/ \E i \in OpIds : FetchFails(i)
  \/ \E i \in OpIds : Settle(i)

Next == LocalMutation \/ Engine

Spec == Init /\ [][Next]_vars

(* ============ the engine draining a queue of <= MaxQueue ============== *)
QueueLen == Cardinality(OpIds \ FreeIds)

NextRetry == (QueueLen < MaxQueue /\ LocalMutation) \/ Engine

SpecRetry == Init /\ [][NextRetry]_vars

(* ================= the application store on its own =================== *)
NextStore ==
  \/ LocalMutation
  \/ \E i \in OpIds : MutationEnqueue(i)
  \/ MutationEnqueueFails
  \/ Tick

SpecStore == Init /\ [][NextStore]_vars

(* ================= connectivity and the start of a pass ================ *)
NextConn ==
  \/ OnlineEvent
  \/ OfflineEvent
  \/ ProbeStart
  \/ \E ok \in BOOLEAN : ProbeDone(ok)
  \/ TriggerSync
  \/ SyncSelect
  \/ SyncSelectFails

SpecConn == Init /\ [][NextConn]_vars

(* ============ a reliable network, once online always online =========== *)
(* Fairness: the 5-minute interval of useOfflineSync keeps calling        *)
(* triggerSync, an awaited IndexedDB read or fetch settles, the server    *)
(* answers every request it received.                                     *)
NextLive ==
  \/ LocalMutation
  \/ \E i \in OpIds : MutationEnqueue(i)
  \/ OnlineEvent
  \/ TriggerSync
  \/ SyncSelect
  \/ \E i \in OpIds : ServerFind(i)
  \/ \E i \in OpIds : ServerApply(i)
  \/ \E i \in OpIds : Settle(i)

SpecLive ==
  /\ Init
  /\ [][NextLive]_vars
  /\ WF_vars(TriggerSync)
  /\ WF_vars(SyncSelect)
  /\ \A i \in OpIds : WF_vars(ServerFind(i))
  /\ \A i \in OpIds : WF_vars(ServerApply(i))
  /\ \A i \in OpIds : WF_vars(Settle(i))

(* ========== processOperation against any 200 answer of the server ====== *)
(* response.json() of line 171: { success, data, conflict, serverData };  *)
(* the record it carries is the user's row at the operation's version or  *)
(* the next, updated just before, at or just after the operation's time   *)
ResponseRecords(op) ==
  {Rec(Me, v, t) : v \in {op.data.version, op.data.version + 1} \ {0},
                   t \in {op.timestamp - 1, op.timestamp, op.timestamp + 1} \cap Times}

Respond(i, cf, res) ==
  /\ req[i].st = "sent"
  /\ req' = [req EXCEPT ![i].st = "done", ![i].status = 200, ![i].conflict = cf,
                        ![i].result = res]
  /\ UNCHANGED <<serverVars, dbVars, mutVars, isOnline, passVars, timerVars, connVars,
                 now, booleanKeys, lastCall, selected, batches, pullVars, declined, auxVars>>

NextResponse ==
  \/ (QueueLen < MaxQueue /\ LocalMutation)
  \/ \E i \in OpIds : MutationEnqueue(i)
  \/ Tick
  \/ OnlineEvent
  \/ TriggerSync
  \/ SyncSelect
  \/ \E i \in OpIds, cf \in BOOLEAN :
       \E res \in ResponseRecords(req[i]) : Respond(i, cf, res)
  \/ \E i \in OpIds : Settle(i)

SpecResponse == Init /\ [][NextResponse]_vars

(* ===================== createBatches on its own ======================= *)
(* n unsynced operations in the order getUnsyncedOperations returns them, *)
(* the first k on record 1 and the others on record 2                     *)
PendingOps(n, k) ==
  [j \in 1..n |-> [NoOp EXCEPT !.id = j, !.type = "UPDATE",
                               !.entityId = IF j <= k THEN 1 ELSE 2]]

InitBatches ==
  /\ selected \in {PendingOps(n, k) : n \in 0..MaxItems, k \in 0..MaxItems}
  /\ batches = <<>>
  /\ srv = [e \in EntityIds |-> NoRec]
  /\ srvLog = {}
  /\ req = [s \in Slots |-> NoReq]
  /\ applications = [e \in EntityIds |-> NoRec]
  /\ syncQueue = [i \in OpIds |-> NoOp]
  /\ created = {}
  /\ enqOrder = <<>>
  /\ mutPc = "idle"
  /\ mut = NoOp
  /\ navOnline = TRUE
  /\ isOnline = TRUE
  /\ storeOnline = TRUE
  /\ isSyncing = FALSE
  /\ pc = "idle"
  /\ validOperations = <<>>
  /\ batchIdx = 0
  /\ completed = 0
  /\ retryTimers = 0
  /\ delaysScheduled = [i \in OpIds |-> <<>>]
  /\ syncState = [status |-> "idle", progress |-> 0, total |-> 0]
  /\ activePasses = 0
  /\ probing = FALSE
  /\ lastProbe = "none"
  /\ now = 0
  /\ booleanKeys = TRUE
  /\ lastCall = NoCall
  /\ srvContacts = NoTables.contacts
  /\ srvDocuments = NoTables.documents
  /\ contacts = NoTables.contacts
  /\ documents = NoTables.documents
  /\ pull = NoPull
  /\ declined = FALSE
  /\ settled = 0
  /\ isChecking = FALSE
  /\ failedAt = [i \in OpIds |-> NoFailure]
  /\ syncStatus = "idle"
  /\ lastSyncedAt = NeverSynced
  /\ resetTimers = 0

(* line 105, reached only with a non-empty selection (lines 94-102) *)
CreateBatchesCall ==
  /\ Len(selected) # 0
  /\ batches = <<>>
  /\ batches' = createBatches(selected, MAX_BATCH_SIZE)
  /\ UNCHANGED <<serverVars, req, dbVars, mutVars, isOnline, passVars, timerVars, connVars,
                 now, booleanKeys, lastCall, selected, pullVars, declined, auxVars>>

NextBatches == CreateBatchesCall

SpecBatches == InitBatches /\ [][NextBatches]_vars

(* ============= callers of sync() while connectivity changes =========== *)
NextCaller ==
  \/ (QueueLen < MaxQueue /\ LocalMutation)
  \/ \E i \in OpIds : MutationEnqueue(i)
  \/ OnlineEvent
  \/ OfflineEvent
  \/ ProbeStart
  \/ \E ok \in BOOLEAN : ProbeDone(ok)
  \/ TriggerSync
  \/ ManualSync
  \/ SyncSelect
  \/ \E i \in OpIds : ServerFind(i)
  \/ \E i \in OpIds : ServerApply(i)
  \/ \E i \in OpIds : Settle(i)

SpecCaller == Init /\ [][NextCaller]_vars

(* ============================== claims ================================ *)

EnqueuedBefore(a, b) ==
  \E k, l \in DOMAIN enqOrder : k < l /\ enqOrder[k] = a /\ enqOrder[l] = b

Outstanding(i) == req[i].st # "none"

(* C1: operations on one entityId go to the endpoint in enqueue order:    *)
(* while the request of a later operation b is out, the request of every  *)
(* earlier operation a on the same entity has been sent and has resolved. *)
C1_PerEntityOrder ==
  \A a, b \in OpIds :
    (/\ EnqueuedBefore(a, b)
     /\ syncQueue[a].entityId = syncQueue[b].entityId
     /\ Outstanding(b))
    => (/\ ~Outstanding(a)
        /\ (syncQueue[a].synced \/ syncQueue[a].retryCount > 0))

(* C2: at most one invocation of sync() is past the isSyncing guard. *)
C2_SingleFlight == activePasses <= 1

(* a pass is in flight while a retry timer is pending and a manual or     *)
(* periodic trigger is possible                                           *)
C2_Witness ==
  /\ activePasses = 1
  /\ pc = "batch"
  /\ isOnline /\ storeOnline
  /\ retryTimers > 0

(* the acting request of a step that is the endpoint's write/response *)
Applies(s) == req[s].st = "found" /\ req'[s].st = "done"

(* the version the client held when it made the mutation: the store sends *)
(* version = held + 1 with an UPDATE, and a CREATE has no baseline (0)    *)
BaseVersion(r) == IF r.operation = "UPDATE" THEN r.data.version - 1 ELSE 0

(* C3: an Update of the owner is applied only when the stored version     *)
(* equals the operation's baseVersion; when they differ the answer is     *)
(* Conflict with the current record and the stored record is unchanged    *)
(* (Scenario B: the second device's Update never overwrites).             *)
C3_VersionChecked ==
  [][\A s \in DeviceSlots :
       LET r == req[s]
           cur == srv[r.entityId]
       IN (/\ Applies(s)
           /\ r.operation = "UPDATE"
           /\ cur # NoRec /\ cur = r.existing
           /\ cur.userId = r.user
           /\ cur.version # BaseVersion(r))
          => (/\ srv'[r.entityId] = cur
              /\ req'[s].conflict
              /\ req'[s].result = cur)]_vars

(* C4: a request of user A on an existing record of user B changes no     *)
(* field of it and does not delete it, whatever the operation kind.       *)
C4_OwnerOnly ==
  [][\A s \in DeviceSlots :
       LET r == req[s]
           cur == srv[r.entityId]
       IN (Applies(s) /\ cur # NoRec /\ cur.userId # r.user)
          => srv'[r.entityId] = cur]_vars

SamePayload(r, q) ==
  /\ r.user = q.user /\ r.operation = q.operation /\ r.entityId = q.entityId
  /\ r.data = q.data /\ r.timestamp = q.timestamp

(* C10: replaying an operation the endpoint already applied (same         *)
(* payload) returns the same applied result and leaves the version as it  *)
(* is.                                                                    *)
C10_IdempotentReplay ==
  [][\A s, q \in DeviceSlots :
       LET r == req[s]
           cur == srv[r.entityId]
       IN (/\ s # q
           /\ req[q].st = "done" /\ req[q].status = 200 /\ ~req[q].conflict
           /\ SamePayload(r, req[q])
           /\ cur = req[q].result /\ cur = r.existing
           /\ Applies(s))
          => (/\ req'[s].status = 200 /\ ~req'[s].conflict
              /\ req'[s].result = req[q].result
              /\ srv'[r.entityId].version = cur.version)]_vars

(* C7: an operation that has failed MAX_RETRY_COUNT times is terminal:    *)
(* its count never passes the cap, no request of it is out, and no pass   *)
(* selects it.                                                            *)
C7_RetryCap ==
  \A i \in OpIds :
    /\ syncQueue[i].retryCount <= MAX_RETRY_COUNT
    /\ syncQueue[i].retryCount >= MAX_RETRY_COUNT => ~Outstanding(i)
    /\ (pc = "batch" /\ Snapshot(i) # NoOp) => Snapshot(i).retryCount < MAX_RETRY_COUNT

(* an operation at the cap, and a later pass that selected nothing *)
C7_Witness ==
  \E i \in OpIds :
    /\ syncQueue[i].retryCount = MAX_RETRY_COUNT
    /\ ~syncQueue[i].synced
    /\ pc = "idle"
    /\ syncState = [status |-> "success", progress |-> 0, total |-> 0]

(* C8: the k-th failure of an operation schedules the k-th delay of       *)
(* 1 s, 2 s, 4 s, 8 s, 16 s.                                              *)
C8_BackoffSchedule ==
  \A i \in OpIds :
    delaysScheduled[i] = SubSeq(RETRY_DELAYS, 1, syncQueue[i].retryCount)

HasOperation(type, e) ==
  \E i \in OpIds : syncQueue[i].type = type /\ syncQueue[i].entityId = e

(* C5: once a local mutation has completed or failed, the record change   *)
(* is in the local store if and only if its operation is in the sync      *)
(* queue: a created record has its CREATE, the stored content is the      *)
(* payload of a queued operation, a removed record has its DELETE.        *)
C5_WriteWithOperation ==
  mutPc = "idle" =>
    \A e \in EntityIds :
      /\ e \in created <=> HasOperation("CREATE", e)
      /\ applications[e] # NoRec =>
           \E i \in OpIds : syncQueue[i].entityId = e /\ syncQueue[i].data = applications[e]
      /\ (e \in created /\ applications[e] = NoRec) <=> HasOperation("DELETE", e)

(* C6: with the connection back for good, a Create that was enqueued is   *)
(* eventually submitted and marked synced.                                *)
C6_OfflineCreateSyncs ==
  <>[]isOnline =>
    \A i \in OpIds :
      (syncQueue[i].type = "CREATE" /\ ~syncQueue[i].synced) ~> syncQueue[i].synced

(* C9: while the platform reports online and the latest health probe has  *)
(* failed, the engine is Offline (and so starts no pass).                 *)
C9_FailedProbeMeansOffline == (navOnline /\ lastProbe = "failed") => ~isOnline

(* the step in which processOperation finishes with the answer to i *)
Settles(i) == req[i].st = "done" /\ req'[i].st = "none"

ConflictAnswer(i) == req[i].status = 200 /\ req[i].conflict

ServerWins(i) == req[i].result.updatedAt > Snapshot(i).timestamp

(* C11: on a Conflict answer the server wins exactly when its record's    *)
(* updatedAt is strictly greater than the operation's timestamp; then the *)
(* local record becomes the server's record and the operation is marked   *)
(* synced and not sent again; otherwise the local record is not replaced. *)
C11_ServerWins ==
  [][\A i \in OpIds :
       (Settles(i) /\ ConflictAnswer(i)) =>
         IF ServerWins(i)
         THEN /\ applications'[Snapshot(i).entityId] = req[i].result
              /\ syncQueue' = [syncQueue EXCEPT ![i].synced = TRUE]
              /\ UNCHANGED timerVars
         ELSE applications' = applications]_vars

(* the server's record has replaced the local one and the operation is   *)
(* marked synced                                                          *)
C11_Witness ==
  \E i \in OpIds :
    /\ syncQueue[i].synced
    /\ req[i] = NoReq
    /\ applications[syncQueue[i].entityId] # syncQueue[i].data
    /\ applications[syncQueue[i].entityId].updatedAt > syncQueue[i].timestamp

AcceptedAnswer(i) == req[i].status = 200 /\ ~req[i].conflict

(* C13: when the endpoint accepts a Create or Update whose optimistic     *)
(* write is still the local record, handling the answer leaves the local  *)
(* record with the version and updatedAt of the record the server         *)
(* returned, and the operation marked synced.                             *)
C13_ServerRecordApplied ==
  [][\A i \in OpIds :
       LET op == Snapshot(i)
       IN (/\ Settles(i) /\ AcceptedAnswer(i)
           /\ op.type \in {"CREATE", "UPDATE"}
           /\ applications[op.entityId] = op.data)
          => (/\ applications'[op.entityId].version = req[i].result.version
              /\ applications'[op.entityId].updatedAt = req[i].result.updatedAt
              /\ syncQueue'[i].synced)]_vars

(* C14: a record is created at version 1, every accepted Create or Update *)
(* of an existing record raises the stored version by exactly one, and no *)
(* request lowers it.                                                     *)
C14_VersionCounts ==
  [][\A s \in DeviceSlots :
       LET r == req[s]
           cur == srv[r.entityId]
           new == srv'[r.entityId]
       IN Applies(s) =>
            /\ (cur = NoRec /\ new # NoRec) => new.version = 1
            /\ (cur # NoRec /\ new # NoRec) => new.version >= cur.version
            /\ (/\ cur # NoRec
                /\ r.operation \in {"CREATE", "UPDATE"}
                /\ req'[s].status = 200 /\ ~req'[s].conflict)
               => new.version = cur.version + 1]_vars

AcceptedUpdate(s) ==
  /\ req[s].st = "done"
  /\ req[s].operation = "UPDATE"
  /\ req[s].status = 200 /\ ~req[s].conflict

(* C15: two accepted Updates of one record sent against the same baseline *)
(* were applied one after the other: each raised the version, so they did *)
(* not both produce the same version.                                     *)
C15_AtomicIncrement ==
  \A s, q \in DeviceSlots :
    (/\ s # q
     /\ AcceptedUpdate(s) /\ AcceptedUpdate(q)
     /\ req[s].entityId = req[q].entityId
     /\ req[s].data.version = req[q].data.version)
    => req[s].result.version # req[q].result.version

RECURSIVE Flatten(_)
Flatten(bs) == IF Len(bs) = 0 THEN <<>> ELSE Head(bs) \o Flatten(Tail(bs))

(* the batch (its index) in which createBatches put the k-th operation *)
BatchOf(k) == CHOOSE b \in 1..Len(batches) : (b - 1) * MAX_BATCH_SIZE < k /\ k <= b * MAX_BATCH_SIZE

(* C16: after batching, two selected operations on the same entityId are  *)
(* in the same batch.                                                     *)
C16_EntityNotSplit ==
  (batches # <<>> /\ Flatten(batches) = selected) =>
    \A k, l \in 1..Len(selected) :
      selected[k].entityId = selected[l].entityId => BatchOf(k) = BatchOf(l)

(* C17: the batches hold between 1 and MAX_BATCH_SIZE operations each,    *)
(* put end to end they are the selected operations, and n operations make *)
(* ceil(n / MAX_BATCH_SIZE) batches.                                      *)
C17_BatchSizes ==
  batches # <<>> =>
    /\ \A b \in 1..Len(batches) : Len(batches[b]) >= 1 /\ Len(batches[b]) <= MAX_BATCH_SIZE
    /\ Flatten(batches) = selected
    /\ Len(batches) = (Len(selected) + MAX_BATCH_SIZE - 1) \div MAX_BATCH_SIZE

(* 51 pending operations made two batches, of 50 and of 1 *)
C17_Witness ==
  /\ Len(selected) = 51
  /\ Len(batches) = 2
  /\ Len(batches[1]) = 50
  /\ Len(batches[2]) = 1

Rejected(i) == req[i].status \in {400, 403, 404}

(* C18: when the endpoint rejects an operation with 400, 403 or 404, no   *)
(* retry timer is scheduled for it and no later pass selects it again.    *)
C18_RejectionIsFinal ==
  [][\A i \in OpIds :
       (Settles(i) /\ Rejected(i)) =>
         /\ UNCHANGED timerVars
         /\ (syncQueue'[i].synced \/ ValidOperations(<<syncQueue'[i]>>) = <<>>)]_vars

(* C19: a manualSync() call that met an engine that was not online ended  *)
(* with the Offline failure, and one that met a running pass ended with   *)
(* the AlreadyInProgress failure.                                         *)
C19_DeclinedCallFails ==
  lastCall.result # "none" =>
    /\ ~lastCall.isOnline => lastCall.result = "Offline"
    /\ (lastCall.isOnline /\ lastCall.isSyncing) => lastCall.result = "AlreadyInProgress"

(* C20: a call of sync() made while the engine is not online starts no    *)
(* pass, sends no request and leaves every queued operation as it was.    *)
C20_OfflineCallChangesNothing ==
  [][(~isOnline /\ (ManualSync \/ TriggerSync)) =>
       /\ req' = req
       /\ syncQueue' = syncQueue
       /\ UNCHANGED <<isSyncing, pc, activePasses, validOperations, batchIdx>>]_vars

(* a call was declined for being offline while an operation is waiting *)
C20_Witness ==
  /\ lastCall.result = "returned"
  /\ ~lastCall.isOnline
  /\ ~lastCall.isSyncing
  /\ \E i \in OpIds : syncQueue[i] # NoOp /\ ~syncQueue[i].synced /\ req[i] = NoReq

(* ========================= pulling from the server ==================== *)
(* GET /api/sync/pull: the caller's applications, newer than             *)
(* lastSyncedAt when the query carries one; the contacts and the          *)
(* documents of the caller's applications; and the server's clock.        *)
PullRoute(user, since) ==
  LET wanted(r) ==
        /\ r # NoRec
        /\ r.userId = user
        /\ (since # NoCheckpoint => r.updatedAt > since)
      owned(row) ==
        /\ row # NoRow
        /\ srv[row.applicationId] # NoRec
        /\ srv[row.applicationId].userId = user
  IN  [applications |-> [e \in EntityIds |-> IF wanted(srv[e]) THEN srv[e] ELSE NoRec],
       contacts |-> [c \in ContactIds |->
                       IF owned(srvContacts[c]) THEN srvContacts[c] ELSE NoRow],
       documents |-> [d \in DocumentIds |->
                        IF owned(srvDocuments[d]) THEN srvDocuments[d] ELSE NoRow],
       timestamp |-> now]

(* a client asks the route, with or without lastSyncedAt *)
PullGet(user, since) ==
  /\ pull.st # "fetched"
  /\ pull' = [st |-> "answered", by |-> "client", user |-> user, since |-> since,
              data |-> PullRoute(user, since), before |-> NoTables]
  /\ UNCHANGED <<serverVars, req, dbVars, mutVars, isOnline, passVars, timerVars, connVars,
                 now, booleanKeys, lastCall, selected, batches, srvContacts, srvDocuments,
                 contacts, documents, declined, auxVars>>

(* pullFromServer(userId) up to response.json(): the engine's query has  *)
(* userId only.                                                           *)
PullFromServerFetch ==
  /\ isOnline
  /\ pull.st # "fetched"
  /\ pull' = [st |-> "fetched", by |-> "engine", user |-> Me, since |-> NoCheckpoint,
              data |-> PullRoute(Me, NoCheckpoint),
              before |-> Tables(applications, contacts, documents)]
  /\ UNCHANGED <<serverVars, req, dbVars, mutVars, isOnline, passVars, timerVars, connVars,
                 now, booleanKeys, lastCall, selected, batches, srvContacts, srvDocuments,
                 contacts, documents, declined, auxVars>>

(* the put() calls of the transaction, in the order the code makes them: *)
(* applications as the route sorted them (updatedAt descending), then     *)
(* contacts, then documents                                               *)
PullPuts(data) ==
  LET ids(S) == SortSeq(CHOOSE q \in [1..Cardinality(S) -> S] : \A x \in S : \E k \in DOMAIN q : q[k] = x,
                        LAMBDA a, b : a < b)
      apps == SortSeq(SelectSeq(ids(EntityIds), LAMBDA e : data.applications[e] # NoRec),
                      LAMBDA a, b : data.applications[a].updatedAt > data.applications[b].updatedAt)
      cons == SelectSeq(ids(ContactIds), LAMBDA c : data.contacts[c] # NoRow)
      docs == SelectSeq(ids(DocumentIds), LAMBDA d : data.documents[d] # NoRow)
  IN  [k \in 1..Len(apps) |-> <<"applications", apps[k], data.applications[apps[k]]>>]
      \o [k \in 1..Len(cons) |-> <<"contacts", cons[k], data.contacts[cons[k]]>>]
      \o [k \in 1..Len(docs) |-> <<"documents", docs[k], data.documents[docs[k]]>>]

(* the tables after the first n of the puts *)
RECURSIVE PutsApplied(_, _, _)
PutsApplied(local, puts, n) ==
  IF n = 0 THEN local
  ELSE LET t == PutsApplied(local, puts, n - 1)
           p == puts[n]
       IN  [t EXCEPT ![p[1]][p[2]] = p[3]]

(* a variant without the transaction: the puts made before the failing   *)
(* one stay                                                               *)
pullFromServerNoTransaction(local, data, failAt) ==
  IF failAt = 0 THEN PutsApplied(local, PullPuts(data), Len(PullPuts(data)))
  ELSE PutsApplied(local, PullPuts(data), failAt - 1)

(* db.transaction("rw", [applications, contacts, documents], ...): all   *)
(* puts, or, when put number failAt rejects, none of them                 *)
pullFromServerTransaction(local, data, failAt) ==
  IF failAt = 0 THEN PutsApplied(local, PullPuts(data), Len(PullPuts(data)))
  ELSE local

PullFromServerApply(failAt) ==
  /\ pull.st = "fetched"
  /\ failAt \in 0..Len(PullPuts(pull.data))
  /\ LET t == pullFromServerTransaction(Tables(applications, contacts, documents),
                                        pull.data, failAt)
     IN  /\ applications' = t.applications
         /\ contacts' = t.contacts
         /\ documents' = t.documents
  /\ pull' = [pull EXCEPT !.st = IF failAt = 0 THEN "applied" ELSE "failed"]
  /\ UNCHANGED <<serverVars, req, syncQueue, created, enqOrder, mutVars, isOnline, passVars,
                 timerVars, connVars, now, booleanKeys, lastCall, selected, batches,
                 srvContacts, srvDocuments, declined, auxVars>>

(* The server holds any applications, application 1 of either user and   *)
(* the others of this device's user, and any contact and document of      *)
(* application 1; the device has pulled nothing yet.                      *)
PullRecords == {NoRec} \cup {Rec(u, 1, t) : u \in Users, t \in Times}
PullRows == {NoRow} \cup {Row(1, t) : t \in Times}

InitPull ==
  /\ srv \in [EntityIds -> PullRecords]
  /\ \A e \in EntityIds \ EndpointIds : srv[e].userId \in {"none", Me}
  /\ srvContacts \in [ContactIds -> PullRows]
  /\ srvDocuments \in [DocumentIds -> PullRows]
  /\ \A c \in ContactIds : srvContacts[c] # NoRow => srv[srvContacts[c].applicationId] # NoRec
  /\ \A d \in DocumentIds : srvDocuments[d] # NoRow => srv[srvDocuments[d].applicationId] # NoRec
  /\ srvLog = {}
  /\ req = [s \in Slots |-> NoReq]
  /\ applications = [e \in EntityIds |-> NoRec]
  /\ contacts = NoTables.contacts
  /\ documents = NoTables.documents
  /\ pull = NoPull
  /\ declined = FALSE
  /\ settled = 0
  /\ isChecking = FALSE
  /\ failedAt = [i \in OpIds |-> NoFailure]
  /\ syncStatus = "idle"
  /\ lastSyncedAt = NeverSynced
  /\ resetTimers = 0
  /\ syncQueue = [i \in OpIds |-> NoOp]
  /\ created = {}
  /\ enqOrder = <<>>
  /\ mutPc = "idle"
  /\ mut = NoOp
  /\ navOnline \in BOOLEAN
  /\ isOnline = navOnline
  /\ storeOnline = navOnline
  /\ isSyncing = FALSE
  /\ pc = "idle"
  /\ validOperations = <<>>
  /\ batchIdx = 0
  /\ completed = 0
  /\ retryTimers = 0
  /\ delaysScheduled = [i \in OpIds |-> <<>>]
  /\ syncState = [status |-> "idle", progress |-> 0, total |-> 0]
  /\ activePasses = 0
  /\ probing = FALSE
  /\ lastProbe = "none"
  /\ now = 0
  /\ booleanKeys = FALSE
  /\ lastCall = NoCall
  /\ selected = <<>>
  /\ batches = <<>>

NextPull ==
  \/ \E u \in Users, since \in Times \cup {NoCheckpoint} : PullGet(u, since)
  \/ PullFromServerFetch
  \/ \E failAt \in 0..(MaxEntities + 2) : PullFromServerApply(failAt)

SpecPull == InitPull /\ [][NextPull]_vars

(* C21: when a write of a pull fails, the device's applications, contacts *)
(* and documents are exactly what they were before that pull: none of the *)
(* pull's records is visible.                                             *)
C21_PullAllOrNothing ==
  pull.st = "failed" => Tables(applications, contacts, documents) = pull.before

(* a pull that had fetched an application and a contact failed at a       *)
(* later write                                                            *)
C21_Witness ==
  /\ pull.st = "failed"
  /\ \E e \in EntityIds : pull.data.applications[e] # NoRec
  /\ \E c \in ContactIds : pull.data.contacts[c] # NoRow

(* C22: every application, contact and document in the answer to a pull   *)
(* with checkpoint T is owned by the caller and was updated after T.      *)
C22_PullNewerThanCheckpoint ==
  (pull.st = "answered" /\ pull.since # NoCheckpoint) =>
    /\ \A e \in EntityIds :
         pull.data.applications[e] # NoRec =>
           /\ pull.data.applications[e].userId = pull.user
           /\ pull.data.applications[e].updatedAt > pull.since
    /\ \A c \in ContactIds :
         pull.data.contacts[c] # NoRow =>
           /\ srv[pull.data.contacts[c].applicationId].userId = pull.user
           /\ pull.data.contacts[c].updatedAt > pull.since
    /\ \A d \in DocumentIds :
         pull.data.documents[d] # NoRow =>
           /\ srv[pull.data.documents[d].applicationId].userId = pull.user
           /\ pull.data.documents[d].updatedAt > pull.since

(* ========================= how a pass ends ============================ *)
(* the step on which sync() reaches its finally block *)
PassEnds == isSyncing /\ ~isSyncing'

(* an operation the pass dispatched whose processOperation took the       *)
(* catch path: its retryCount is above the one the pass read              *)
FailedInPass ==
  \E k \in 1..Len(validOperations) :
    syncQueue'[validOperations[k].id].retryCount > validOperations[k].retryCount

(* C23: a pass ends with a final status notified, and a pass in which a   *)
(* dispatched operation failed does not end with status success.          *)
C23_FailedPassNotSuccess ==
  [][PassEnds =>
       /\ syncState'.status \in {"success", "PartialFailure", "error"}
       /\ FailedInPass => syncState'.status # "success"]_vars

(* an operation that used up its attempts: unsynced and no longer         *)
(* selected by the filter of lines 90-92                                  *)
Exhausted(i) ==
  /\ syncQueue[i] # NoOp
  /\ ~syncQueue[i].synced
  /\ syncQueue[i].retryCount >= MAX_RETRY_COUNT

(* C24: while an operation has used up its attempts, the state last       *)
(* delivered to the subscribers is not a plain success.                   *)
C24_ExhaustedIsSurfaced ==
  (\E i \in OpIds : Exhausted(i)) => syncState.status # "success"

(* ================= requests for ids the server knows or not =========== *)
(* C25: a CREATE whose entityId the endpoint found stored is answered     *)
(* without an error, as an update or as a conflict, and the id still      *)
(* names one stored record.                                               *)
C25_CreateOfExistingHandled ==
  [][\A s \in DeviceSlots :
       (Applies(s) /\ req[s].operation = "CREATE" /\ req[s].existing # NoRec) =>
         /\ req'[s].status = 200
         /\ srv'[req[s].entityId] # NoRec]_vars

(* ============ one queued operation and one other device =============== *)
(* The device holds one operation on record 1, made by a store mutation   *)
(* at time t; the server holds any row for that id or none.               *)
OtherDevice == MaxOps + 1

QueuedOp(type, t) ==
  [id |-> 1, type |-> type, entityId |-> 1,
   data |-> IF type = "CREATE" THEN Rec(Me, 1, t)
            ELSE IF type = "UPDATE" THEN Rec(Me, 2, t)
            ELSE NoRec,
   timestamp |-> t, synced |-> FALSE, retryCount |-> 0, error |-> ""]

InitQueued ==
  /\ srv \in [EntityIds -> ServerRecords]
  /\ \A e \in EntityIds \ EndpointIds : srv[e] = NoRec
  /\ srvLog = {}
  /\ req = [s \in Slots |-> NoReq]
  /\ \E type \in {"CREATE", "UPDATE", "DELETE"}, t \in Times :
       /\ syncQueue = [i \in OpIds |-> IF i = 1 THEN QueuedOp(type, t) ELSE NoOp]
       /\ applications = [e \in EntityIds |-> IF e = 1 THEN QueuedOp(type, t).data ELSE NoRec]
       /\ now = t
  /\ created = {1}
  /\ enqOrder = <<1>>
  /\ mutPc = "idle"
  /\ mut = NoOp
  /\ navOnline = TRUE
  /\ isOnline = TRUE
  /\ storeOnline = TRUE
  /\ isSyncing = FALSE
  /\ pc = "idle"
  /\ validOperations = <<>>
  /\ batchIdx = 0
  /\ completed = 0
  /\ retryTimers = 0
  /\ delaysScheduled = [i \in OpIds |-> <<>>]
  /\ syncState = [status |-> "idle", progress |-> 0, total |-> 0]
  /\ activePasses = 0
  /\ probing = FALSE
  /\ lastProbe = "none"
  /\ booleanKeys \in BOOLEAN
  /\ lastCall = NoCall
  /\ selected = <<>>
  /\ batches = <<>>
  /\ srvContacts = NoTables.contacts
  /\ srvDocuments = NoTables.documents
  /\ contacts = NoTables.contacts
  /\ documents = NoTables.documents
  /\ pull = NoPull
  /\ declined = FALSE
  /\ settled = 0
  /\ isChecking = FALSE
  /\ failedAt = [i \in OpIds |-> NoFailure]
  /\ syncStatus = "idle"
  /\ lastSyncedAt = NeverSynced
  /\ resetTimers = 0

(* the queued operation is a DELETE; another device's request may run    *)
(* between the steps of the device's own                                  *)
InitDelete == InitQueued /\ syncQueue[1].type = "DELETE"

NextDelete ==
  \/ TriggerSync
  \/ SyncSelect
  \/ SubmitAny(OtherDevice)
  \/ \E s \in OpIds \cup {OtherDevice} : ServerFind(s)
  \/ \E s \in OpIds \cup {OtherDevice} : ServerApply(s)
  \/ \E i \in OpIds : Settle(i)

SpecDelete == InitDelete /\ [][NextDelete]_vars

SyncDeclined ==
  /\ isOnline
  /\ isSyncing
  /\ SyncCall(isOnline)
  /\ declined' = TRUE
  /\ UNCHANGED <<serverVars, req, dbVars, mutVars, isOnline, timerVars, connVars, now,
                 booleanKeys, lastCall, selected, batches, pullVars, auxVars>>

(* sync() called while no pass runs: a pass starts *)
SyncStarts ==
  /\ isOnline
  /\ ~isSyncing
  /\ SyncCall(isOnline)
  /\ declined' = FALSE
  /\ UNCHANGED <<serverVars, req, dbVars, mutVars, isOnline, timerVars, connVars, now,
                 booleanKeys, lastCall, selected, batches, pullVars, auxVars>>

NextCoalesce ==
  \/ LocalMutation
  \/ \E i \in OpIds : MutationEnqueue(i)
  \/ SyncStarts
  \/ SyncDeclined
  \/ SyncSelect
  \/ \E i \in OpIds : ServerFind(i)
  \/ \E i \in OpIds : ServerApply(i)
  \/ \E i \in OpIds : Settle(i)

(* Fairness: an awaited IndexedDB read settles and the server answers     *)
(* every request, so a pass that started runs to its end.  No further     *)
(* call of sync() is assumed to come.                                     *)
SpecCoalesce ==
  /\ Init
  /\ [][NextCoalesce]_vars
  /\ WF_vars(SyncSelect)
  /\ \A i \in OpIds : WF_vars(ServerFind(i))
  /\ \A i \in OpIds : WF_vars(ServerApply(i))
  /\ \A i \in OpIds : WF_vars(Settle(i))

(* C27: a call of sync() that arrives during a pass is followed, after    *)
(* that pass, by the start of a further pass.                             *)
C27_TriggerCoalesced == declined ~> ~declined

(* ================== what a pass works on ============================== *)
(* an operation in the queue that the pass under way did not read *)
AppendedDuringPass(i) ==
  /\ pc = "batch"
  /\ syncQueue[i] # NoOp
  /\ Snapshot(i) = NoOp

(* C28: a pass works on what it read at selection.  The selection is the  *)
(* queue as read then, each operation once; it does not change during the *)
(* pass; a request is sent only for a selected operation; an operation    *)
(* appended during the pass gets no request from it and is not counted in *)
(* the total the pass reports.                                            *)
C28_PassUsesSnapshot ==
  [][/\ (pc = "select" /\ pc' = "batch") =>
          /\ validOperations' = ValidOperations(getUnsyncedOperations)
          /\ \A k, l \in 1..Len(validOperations') :
               validOperations'[k].id = validOperations'[l].id => k = l
     /\ (pc = "batch" /\ pc' = "batch") => validOperations' = validOperations
     /\ \A i \in OpIds :
          /\ (req[i].st = "none" /\ req'[i].st = "sent") =>
               \E k \in 1..Len(validOperations') : validOperations'[k].id = i
          /\ AppendedDuringPass(i) => req'[i] = NoReq
     /\ (pc = "batch" /\ syncState' # syncState) =>
          syncState'.total = Cardinality({i \in OpIds : Snapshot(i) # NoOp})]_vars

(* a pass is at work on one operation while another, appended after the   *)
(* selection, waits in the queue                                          *)
C28_Witness ==
  /\ \E i \in OpIds : AppendedDuringPass(i) /\ ~syncQueue[i].synced /\ req[i] = NoReq
  /\ \E j \in OpIds : Snapshot(j) # NoOp /\ req[j].st = "done"

(* ================= a pass whose request may never be answered ========= *)
(* Fairness: the awaited IndexedDB read settles, and processOperation     *)
(* goes on once its fetch has settled.  Nothing is assumed of the network *)
(* or the server: a request may stay without an answer for ever.          *)
SpecHang ==
  /\ Init
  /\ [][NextRetry]_vars
  /\ WF_vars(SyncSelect)
  /\ \A i \in OpIds : WF_vars(Settle(i))

(* C29: a pass that started ends and clears isSyncing, also when a        *)
(* request of it never gets an answer.                                    *)
C29_PassTerminates == isSyncing ~> ~isSyncing

(* ============== one queued operation and failing requests ============= *)
(* The route's catch: a Prisma call throws (database unreachable) and the *)
(* request is answered 500 with nothing written.                          *)
ServerFails(i) ==
  /\ req[i].st \in {"sent", "found"}
  /\ req' = [req EXCEPT ![i].st = "done", ![i].status = 500, ![i].conflict = FALSE,
                        ![i].result = NoRec]
  /\ UNCHANGED <<serverVars, dbVars, mutVars, isOnline, passVars, timerVars, connVars,
                 now, booleanKeys, lastCall, selected, batches, pullVars, declined, auxVars>>

NextTransient ==
  \/ TriggerSync
  \/ SyncSelect
  \/ \E i \in OpIds : ServerFind(i)
  \/ \E i \in OpIds : ServerApply(i)
  \/ \E i \in OpIds : FetchFails(i)
  \/ \E i \in OpIds : ServerFails(i)
  \/ \E i \in OpIds : Settle(i)
  \/ RetryTimerFires

SpecTransient == InitQueued /\ [][NextTransient]_vars

(* the fetch rejected (network) or the server answered 5xx *)
TransientFailure(r) == r.status = 0 \/ r.status >= 500

(* the operations a pass starting now would select *)
Selectable == ValidOperations(getUnsyncedOperations)

(* C30: when a request fails with a network error or a 5xx answer, the    *)
(* operation's retryCount goes up by one, the error is recorded, the      *)
(* operation stays unsynced and, while its count is below the cap, a      *)
(* later pass selects it again.                                           *)
C30_TransientFailureRetried ==
  [][\A i \in OpIds :
       (Settles(i) /\ TransientFailure(req[i])) =>
         /\ syncQueue'[i].retryCount = syncQueue[i].retryCount + 1
         /\ syncQueue'[i].error # ""
         /\ ~syncQueue'[i].synced
         /\ syncQueue'[i].retryCount < MAX_RETRY_COUNT =>
              \E k \in 1..Len(Selectable') : Selectable'[k].id = i]_vars

(* an operation that failed before is dispatched again by a later pass *)
C30_Witness ==
  \E i \in OpIds :
    /\ syncQueue[i].retryCount >= 1
    /\ syncQueue[i].error # ""
    /\ ~syncQueue[i].synced
    /\ pc = "batch"
    /\ req[i].st = "sent"

(* =================== the batch loop of a long pass ==================== *)
(* sync() over a selection of up to MaxItems operations.  The requests    *)
(* of a batch are counted, not told apart: settled is the number of the   *)
(* batch's processOperation promises that have settled.                   *)
InitProgress ==
  /\ InitBatches
  /\ \E n \in 0..MaxItems : selected = PendingOps(n, 0)

(* a count that advances by the batch size rather than by the batch *)
CompletedByBatchSize(done, batch) == done + MAX_BATCH_SIZE

(* completed += batch.length (line 110) *)
Completed(done, batch) == done + Len(batch)

(* lines 87-109 with getUnsyncedOperations returning selected *)
SelectMany ==
  /\ pc = "select"
  /\ LET valid == ValidOperations(selected)
     IN IF Len(valid) = 0
        THEN /\ syncState' = [status |-> "success", progress |-> 0, total |-> 0]
             /\ isSyncing' = FALSE
             /\ pc' = "idle"
             /\ activePasses' = activePasses - 1
             /\ UNCHANGED <<validOperations, batchIdx, completed, settled>>
        ELSE /\ validOperations' = valid
             /\ batchIdx' = 1
             /\ completed' = 0
             /\ settled' = 0
             /\ pc' = "batch"
             /\ UNCHANGED <<isSyncing, syncState, activePasses>>
  /\ UNCHANGED <<serverVars, req, dbVars, mutVars, isOnline, timerVars, connVars, now,
                 booleanKeys, lastCall, selected, batches, pullVars, declined, hookVars, failedAt,
                 storeVars>>

(* one processOperation promise of the current batch settles *)
OperationSettles ==
  /\ pc = "batch"
  /\ settled < Len(CurrentBatch)
  /\ settled' = settled + 1
  /\ UNCHANGED <<serverVars, req, dbVars, mutVars, isOnline, passVars, timerVars, connVars,
                 now, booleanKeys, lastCall, selected, batches, pullVars, declined, hookVars, failedAt,
                 storeVars>>

(* Promise.allSettled resolves: lines 110-115, then the next batch *)
BatchCompletes ==
  /\ pc = "batch"
  /\ settled = Len(CurrentBatch)
  /\ completed' = Completed(completed, CurrentBatch)
  /\ syncState' = [status |-> "syncing",
                   progress |-> Completed(completed, CurrentBatch),
                   total |-> PassTotal]
  /\ IF batchIdx < Len(Batches)
     THEN /\ batchIdx' = batchIdx + 1
          /\ settled' = 0
          /\ pc' = pc
     ELSE /\ pc' = "finish"
          /\ UNCHANGED <<batchIdx, settled>>
  /\ UNCHANGED <<isSyncing, validOperations, activePasses>>
  /\ UNCHANGED <<serverVars, req, dbVars, mutVars, isOnline, timerVars, connVars, now,
                 booleanKeys, lastCall, selected, batches, pullVars, declined, hookVars, failedAt,
                 storeVars>>

(* after the loop: lines 118-122 and the finally block *)
PassSucceeds ==
  /\ pc = "finish"
  /\ syncState' = [status |-> "success", progress |-> PassTotal, total |-> PassTotal]
  /\ isSyncing' = FALSE
  /\ pc' = "idle"
  /\ activePasses' = activePasses - 1
  /\ UNCHANGED <<validOperations, batchIdx, completed, settled>>
  /\ UNCHANGED <<serverVars, req, dbVars, mutVars, isOnline, timerVars, connVars, now,
                 booleanKeys, lastCall, selected, batches, pullVars, declined, hookVars, failedAt,
                 storeVars>>

NextProgress ==
  \/ TriggerSync
  \/ SelectMany
  \/ SyncSelectFails
  \/ OperationSettles
  \/ BatchCompletes
  \/ PassSucceeds

SpecProgress == InitProgress /\ [][NextProgress]_vars

(* C31: within a pass the reported progress never goes down and never     *)
(* exceeds the total; a report made after a batch carries as total the    *)
(* number of operations selected and as progress no more than the number  *)
(* of operations whose request has settled.                               *)
C31_ProgressReports ==
  [][/\ isSyncing => syncState'.progress >= syncState.progress
     /\ syncState'.progress <= syncState'.total
     /\ (pc = "batch" /\ syncState' # syncState) =>
          /\ syncState'.total = Len(ValidOperations(selected))
          /\ syncState'.progress <= completed + settled]_vars

(* the second batch of a pass over 101 operations has been reported *)
C31_Witness ==
  /\ pc = "batch"
  /\ batchIdx = 3
  /\ syncState = [status |-> "syncing", progress |-> MAX_BATCH_SIZE + MAX_BATCH_SIZE,
                  total |-> MAX_BATCH_SIZE + MAX_BATCH_SIZE + 1]

(* ===================== connectivity and the platform ================== *)
(* useNetworkStatus: checkRealConnectivity up to its awaited fetch; run   *)
(* on mount, on "online" and every 30 s                                   *)
HookProbeStart ==
  /\ ~isChecking
  /\ IF ~navOnline
     THEN /\ storeOnline' = FALSE
          /\ UNCHANGED isChecking
     ELSE /\ isChecking' = TRUE
          /\ UNCHANGED storeOnline
  /\ UNCHANGED <<serverVars, req, dbVars, mutVars, isOnline, passVars, timerVars, navOnline,
                 probing, lastProbe, now, booleanKeys, lastCall, selected, batches, pullVars,
                 declined, settled, failedAt, storeVars>>

(* the hook's fetch resolves (ok) or rejects / is aborted after 5 s *)
HookProbeDone(ok) ==
  /\ isChecking
  /\ isChecking' = FALSE
  /\ storeOnline' = ok
  /\ UNCHANGED <<serverVars, req, dbVars, mutVars, isOnline, passVars, timerVars, navOnline,
                 probing, lastProbe, now, booleanKeys, lastCall, selected, batches, pullVars,
                 declined, settled, failedAt, storeVars>>

NextNetwork ==
  \/ OnlineEvent
  \/ OfflineEvent
  \/ ProbeStart
  \/ \E ok \in BOOLEAN : ProbeDone(ok)
  \/ HookProbeStart
  \/ \E ok \in BOOLEAN : HookProbeDone(ok)
  \/ TriggerSync
  \/ SyncSelect
  \/ SyncSelectFails

SpecNetwork == Init /\ [][NextNetwork]_vars

(* C32: the engine and the store are never online while the platform      *)
(* (navigator.onLine) reports offline.                                    *)
C32_OnlineNeedsPlatform ==
  /\ isOnline => navOnline
  /\ storeOnline => navOnline

(* ======================= retries against the clock ==================== *)
(* One queued operation, no row on the server, and a clock that counts    *)
(* in units of the first delay.                                           *)
TickMs == RETRY_DELAYS[1]

InitBackoff ==
  /\ InitQueued
  /\ srv[1] = NoRec
  /\ now = 0

(* the time from which the timer set at the operation's latest failure is *)
(* due: setTimeout(..., delay) with delay = RETRY_DELAYS[retryCount] read  *)
(* before the increment                                                   *)
RetryDue(i) == failedAt[i] * TickMs + RetryDelay(syncQueue[i].retryCount - 1)

(* the setTimeout callback runs, not before its delay has passed *)
RetryTimerDue ==
  /\ \E i \in OpIds : failedAt[i] # NoFailure /\ now * TickMs >= RetryDue(i)
  /\ RetryTimerFires

NextBackoff ==
  \/ Tick
  \/ TriggerSync
  \/ SyncSelect
  \/ \E i \in OpIds : ServerFind(i)
  \/ \E i \in OpIds : ServerApply(i)
  \/ \E i \in OpIds : FetchFails(i)
  \/ \E i \in OpIds : Settle(i)
  \/ RetryTimerDue

SpecBackoff == InitBackoff /\ [][NextBackoff]_vars

(* C33: an operation whose request failed gets its next request only when *)
(* the delay of that failure has passed.                                  *)
C33_BackoffHonoured ==
  [][\A i \in OpIds :
       (req[i].st = "none" /\ req'[i].st = "sent" /\ failedAt[i] # NoFailure) =>
         now * TickMs >= RetryDue(i)]_vars

(* ========================= what a pass selects ======================== *)
(* C34: every operation in the queue that is not marked synced is         *)
(* returned by getUnsyncedOperations.                                     *)
C34_SelectionComplete ==
  \A i \in OpIds :
    (syncQueue[i] # NoOp /\ ~syncQueue[i].synced) =>
      \E k \in 1..Len(getUnsyncedOperations) : getUnsyncedOperations[k].id = i

(* ================ a pull while an operation is queued ================= *)
NextPullQueued ==
  \/ PullFromServerFetch
  \/ \E failAt \in 0..(MaxEntities + 2) : PullFromServerApply(failAt)

SpecPullQueued == InitQueued /\ [][NextPullQueued]_vars

(* an unsynced operation on record e is in the queue *)
PendingOn(e) ==
  \E i \in OpIds : syncQueue[i] # NoOp /\ ~syncQueue[i].synced /\ syncQueue[i].entityId = e

(* C35: a pull leaves the local copy of a record as it is while an        *)
(* unsynced operation on that record is in the queue.                     *)
C35_PullKeepsUnsyncedWork ==
  [][\A e \in EntityIds : PendingOn(e) => applications'[e] = applications[e]]_vars

(* ============ local mutations on a record already edited ============== *)
SpecUpdates == InitQueued /\ [][NextStore]_vars

(* the step of updateApplication that writes record e *)
UpdateWrites(e) ==
  /\ mutPc = "idle"
  /\ mutPc' = "written"
  /\ mut'.type = "UPDATE"
  /\ mut'.entityId = e

(* C39: every updateApplication call stores a version strictly greater    *)
(* than the version the record had before the call.                       *)
C39_LocalVersionGrows ==
  [][\A e \in EntityIds :
       UpdateWrites(e) => applications'[e].version > applications[e].version]_vars

(* ============== what a response tells about other users =============== *)
(* rec is no record of user u: absent, or owned by somebody else *)
Foreign(rec, u) == rec = NoRec \/ rec.userId # u

(* the response to request r had findUnique returned ex (no write between) *)
ResponseTo(r, ex) == Handle([r EXCEPT !.existing = ex], ex).resp

(* C40: the response to a request does not depend on records owned by     *)
(* users other than the caller, and a conflict response carries no record *)
(* of another owner.                                                      *)
C40_NoDisclosure ==
  /\ \A s \in Slots :
       (req[s].st = "found" /\ Foreign(req[s].existing, req[s].user)) =>
         \A other \in ServerRecords :
           Foreign(other, req[s].user) =>
             ResponseTo(req[s], other) = ResponseTo(req[s], req[s].existing)
  /\ \A s \in Slots :
       (req[s].st = "done" /\ req[s].conflict) => req[s].result.userId = req[s].user

(* ====================== a synced operation stays put ================== *)
IsSynced(i) == syncQueue[i] # NoOp /\ syncQueue[i].synced

(* C36: an operation marked synced keeps its synced flag and its attempt  *)
(* count and is never sent to the endpoint again; an operation becomes    *)
(* synced only on the step that handles a 200 response to its request.    *)
C36_SyncedIsTerminal ==
  [][\A i \in OpIds :
       /\ IsSynced(i) =>
            /\ syncQueue'[i].synced
            /\ syncQueue'[i].retryCount = syncQueue[i].retryCount
            /\ req'[i].st = "none"
       /\ (syncQueue[i] # NoOp /\ ~syncQueue[i].synced /\ syncQueue'[i].synced) =>
            /\ req[i].st = "done"
            /\ req[i].status = 200]_vars

(* a later pass is selecting from a queue whose operation failed once and *)
(* was synced on its second attempt; no retry timer is left               *)
C36_Witness ==
  /\ IsSynced(1)
  /\ syncQueue[1].retryCount = 1
  /\ retryTimers = 0
  /\ pc = "select"

(* ======================= useSyncStore (sync-store.ts) ================= *)
(* The queue is empty in these specifications, so a pass is the read of   *)
(* the queue and its end.  Every notice of the engine reaches the store   *)
(* through the subscriber, which copies state.status into syncStatus.     *)

(* reset timers pending or still to be set by a call under way *)
ResetsAhead ==
  resetTimers + (IF isSyncing THEN 1 ELSE 0) + (IF pull.st = "fetched" THEN 1 ELSE 0)

(* triggerSync, the engine taking the call: set "syncing", sync() up to   *)
(* its first await (its notice sets "syncing" again)                      *)
StoreSyncStarts ==
  /\ storeOnline
  /\ SyncGuard(isOnline, isSyncing)
  /\ ResetsAhead < MaxResets
  /\ SyncCall(isOnline)
  /\ syncStatus' = "syncing"
  /\ UNCHANGED <<serverVars, req, dbVars, mutVars, isOnline, timerVars, connVars, now,
                 booleanKeys, lastCall, selected, batches, pullVars, declined, settled,
                 hookVars, failedAt, lastSyncedAt, resetTimers>>

(* triggerSync, the engine returning at its guard: the awaited promise is *)
(* resolved already, and the lines after the await run                    *)
StoreSyncDeclined ==
  /\ storeOnline
  /\ ~SyncGuard(isOnline, isSyncing)
  /\ ResetsAhead < MaxResets
  /\ SyncCall(isOnline)
  /\ syncStatus' = "success"
  /\ lastSyncedAt' = now
  /\ resetTimers' = resetTimers + 1
  /\ UNCHANGED <<serverVars, req, dbVars, mutVars, isOnline, timerVars, connVars, now,
                 booleanKeys, lastCall, selected, batches, pullVars, declined, settled,
                 hookVars, failedAt>>

(* the pass finds nothing to send and ends; triggerSync resumes *)
StoreSyncSelect ==
  /\ pc = "select"
  /\ Len(ValidOperations(getUnsyncedOperations)) = 0
  /\ syncState' = [status |-> "success", progress |-> 0, total |-> 0]
  /\ isSyncing' = FALSE
  /\ pc' = "idle"
  /\ activePasses' = activePasses - 1
  /\ syncStatus' = "success"
  /\ lastSyncedAt' = now
  /\ resetTimers' = resetTimers + 1
  /\ UNCHANGED <<validOperations, batchIdx, completed, req, serverVars, dbVars, mutVars,
                 isOnline, timerVars, connVars, now, booleanKeys, lastCall, selected,
                 batches, pullVars, declined, settled, hookVars, failedAt>>

(* getUnsyncedOperations rejects: the engine notifies "error" and         *)
(* rethrows, triggerSync catches                                          *)
StoreSyncSelectFails ==
  /\ pc = "select"
  /\ syncState' = [status |-> "error", progress |-> 0, total |-> 0]
  /\ isSyncing' = FALSE
  /\ pc' = "idle"
  /\ activePasses' = activePasses - 1
  /\ syncStatus' = "error"
  /\ UNCHANGED <<validOperations, batchIdx, completed, req, serverVars, dbVars, mutVars,
                 isOnline, timerVars, connVars, now, booleanKeys, lastCall, selected,
                 batches, pullVars, declined, settled, hookVars, failedAt,
                 lastSyncedAt, resetTimers>>

(* the store's pullFromServer up to the engine's awaited fetch; the       *)
(* engine throws at once when it is offline                               *)
StorePullStarts ==
  /\ storeOnline
  /\ pull.st # "fetched"
  /\ ResetsAhead < MaxResets
  /\ IF isOnline
     THEN /\ pull' = [st |-> "fetched", by |-> "engine", user |-> Me,
                      since |-> NoCheckpoint, data |-> PullRoute(Me, NoCheckpoint),
                      before |-> Tables(applications, contacts, documents)]
          /\ syncStatus' = "syncing"
     ELSE /\ syncStatus' = "error"
          /\ UNCHANGED pull
  /\ UNCHANGED <<serverVars, req, dbVars, mutVars, isOnline, passVars, timerVars, connVars,
                 now, booleanKeys, lastCall, selected, batches, srvContacts, srvDocuments,
                 contacts, documents, declined, settled, hookVars, failedAt,
                 lastSyncedAt, resetTimers>>

(* the engine's pull ends: the transaction commits and the store resumes, *)
(* or the response is not ok and the store catches                        *)
StorePullEnds(ok) ==
  /\ pull.st = "fetched"
  /\ IF ok
     THEN /\ LET t == pullFromServerTransaction(Tables(applications, contacts, documents),
                                                pull.data, 0)
             IN  /\ applications' = t.applications
                 /\ contacts' = t.contacts
                 /\ documents' = t.documents
          /\ pull' = [pull EXCEPT !.st = "applied"]
          /\ syncStatus' = "success"
          /\ lastSyncedAt' = now
          /\ resetTimers' = resetTimers + 1
     ELSE /\ pull' = [pull EXCEPT !.st = "failed"]
          /\ syncStatus' = "error"
          /\ UNCHANGED <<applications, contacts, documents, lastSyncedAt, resetTimers>>
  /\ UNCHANGED <<serverVars, req, syncQueue, created, enqOrder, mutVars, isOnline, passVars,
                 timerVars, connVars, now, booleanKeys, lastCall, selected, batches,
                 srvContacts, srvDocuments, declined, settled, hookVars, failedAt>>

(* setTimeout(() => set({ syncStatus: "idle" }), 2000) runs *)
ResetTimerFires ==
  /\ resetTimers > 0
  /\ resetTimers' = resetTimers - 1
  /\ syncStatus' = "idle"
  /\ UNCHANGED <<serverVars, req, dbVars, mutVars, isOnline, passVars, timerVars, connVars,
                 now, booleanKeys, lastCall, selected, batches, pullVars, declined, settled,
                 hookVars, failedAt, lastSyncedAt>>

NextSyncStore ==
  \/ StoreSyncStarts
  \/ StoreSyncDeclined
  \/ StoreSyncSelect
  \/ StoreSyncSelectFails
  \/ StorePullStarts
  \/ \E ok \in BOOLEAN : StorePullEnds(ok)
  \/ ResetTimerFires
  \/ ProbeStart
  \/ \E ok \in BOOLEAN : ProbeDone(ok)
  \/ Tick

SpecSyncStore == Init /\ [][NextSyncStore]_vars

(* a pass ends with the engine's "success" notice *)
PassCompletes == isSyncing /\ ~isSyncing' /\ syncState'.status = "success"

(* a pull ends with its transaction committed *)
PullCompletes == pull.st = "fetched" /\ pull'.st = "applied"

(* C37: syncStatus becomes "success" and lastSyncedAt changes only on a   *)
(* step that completes a pass (or a pull); a triggerSync call the engine  *)
(* declines leaves both as they are.                                      *)
C37_SuccessOnlyForPassRun ==
  [][((syncStatus' = "success" /\ syncStatus # "success") \/ lastSyncedAt' # lastSyncedAt)
       => (PassCompletes \/ PullCompletes)]_vars

(* ============ the reset timer, with every call taken by the engine ==== *)
NextResetTimer ==
  \/ StoreSyncStarts
  \/ StoreSyncSelect
  \/ StoreSyncSelectFails
  \/ StorePullStarts
  \/ \E ok \in BOOLEAN : StorePullEnds(ok)
  \/ ResetTimerFires
  \/ ProbeStart
  \/ \E ok \in BOOLEAN : ProbeDone(ok)
  \/ Tick

SpecResetTimer == Init /\ [][NextResetTimer]_vars

(* a sync pass or a pull is under way *)
InFlight == isSyncing \/ pull.st = "fetched"

(* C38: a reset timer that fires while a pass or a pull is under way      *)
(* leaves syncStatus at "syncing".                                        *)
C38_ResetTimerSparesLaterPass ==
  [][(resetTimers' < resetTimers /\ InFlight) => syncStatus' = "syncing"]_vars
====
